---- MODULE Spec2Model ----
(***************************************************************************)
(* Single-element valid/ready queues of pmlib/queues.py: the normal queue  *)
(* (SingleElementNormalQueue) and the bypass queue                         *)
(* (SingleElementBypassQueue), each a control unit holding the full bit    *)
(* and a datapath holding an enabled register.                             *)
(*                                                                         *)
(* One state of the model is one clock cycle: the registered state (full,  *)
(* reg) together with the inputs driven in that cycle.  The combinational  *)
(* outputs are functions of that state; one step is one rising clock edge, *)
(* which commits every sequential block from the pre-edge values and then  *)
(* lets the environment drive the inputs of the next cycle.                *)
(***************************************************************************)
EXTENDS Integers, Sequences, FiniteSets, TLC

\* ------------------------------------------------------------------------
\* Bounds
\* ------------------------------------------------------------------------

\* nbits, the data width chosen at construction
W == 2

\* saturation point of the bookkeeping counter `pending'
MaxPending == 2

\* number of committed enqueues after which the logged run stops
MaxLog == 2

Values == 0 .. (2^W - 1)
Bit    == {0, 1}

\* ------------------------------------------------------------------------
\* One-bit arithmetic of the combinational blocks
\* ------------------------------------------------------------------------

\* Python's ~x on a one-bit signal: -x-1, kept to the width of the signal
Invert(x) == (-x - 1) % 2

\* x & y on one-bit signals
BitAnd(x, y) == IF x = 1 /\ y = 1 THEN 1 ELSE 0

\* x | y on one-bit signals
BitOr(x, y) == IF x = 1 \/ y = 1 THEN 1 ELSE 0

\* truth value of a signal in a Python `and' / `if'
Truthy(x) == x # 0

\* ------------------------------------------------------------------------
\* pmlib.regs.RegEn and pmlib.muxes.Mux2 (instantiated by the datapaths)
\* ------------------------------------------------------------------------

\* enabled register: captures in_ at the edge when en is asserted
RegEn(out, en, in_) == IF Truthy(en) THEN in_ % (2^W) ELSE out

\* two-way selector: out = in_[sel]
Mux2(in0, in1, sel) == IF sel = 0 THEN in0 ELSE in1

\* ------------------------------------------------------------------------
\* SingleElementNormalQueueCtrl
\* ------------------------------------------------------------------------

\* slip: the write enable follows enq_val without looking at the full bit
NormalCtrl_wen_NoFullCheck(f, ev) == ev

NormalCtrl_wen(f, ev) == BitAnd(Invert(f), ev)

\* slip: the queue reports ready whether or not it is full
NormalCtrl_enq_rdy_Always(f) == 1

NormalCtrl_enq_rdy(f) == Invert(f)

\* slip: deq_val is tied low, the queue never offers its item
NormalCtrl_deq_val_Never(f) == 0

\* slip: the queue offers data whether or not it holds any
NormalCtrl_deq_val_Always(f) == 1

NormalCtrl_deq_val(f) == f

\* slip: the branch that sets the full bit on an enqueue is missing
NormalCtrl_seq_NoSet(f, ev, dr, rst) ==
  LET deq_val == NormalCtrl_deq_val(f)
  IN  IF Truthy(rst) THEN 0
      ELSE IF Truthy(dr) /\ Truthy(deq_val) THEN 0
      ELSE f

\* slip: reset is tested after the two transactions instead of before
NormalCtrl_seq_ResetLast(f, ev, dr, rst) ==
  LET enq_rdy == NormalCtrl_enq_rdy(f)
      deq_val == NormalCtrl_deq_val(f)
  IN  IF Truthy(dr) /\ Truthy(deq_val) THEN 0
      ELSE IF Truthy(enq_rdy) /\ Truthy(ev) THEN 1
      ELSE IF Truthy(rst) THEN 0
      ELSE f

\* slip: the final branch clears the full bit instead of holding it
NormalCtrl_seq_NoHold(f, ev, dr, rst) ==
  LET enq_rdy == NormalCtrl_enq_rdy(f)
      deq_val == NormalCtrl_deq_val(f)
  IN  IF Truthy(rst) THEN 0
      ELSE IF Truthy(dr) /\ Truthy(deq_val) THEN 0
      ELSE IF Truthy(enq_rdy) /\ Truthy(ev) THEN 1
      ELSE 0

NormalCtrl_seq(f, ev, dr, rst) ==
  LET enq_rdy == NormalCtrl_enq_rdy(f)
      deq_val == NormalCtrl_deq_val(f)
  IN  IF Truthy(rst) THEN 0
      ELSE IF Truthy(dr) /\ Truthy(deq_val) THEN 0
      ELSE IF Truthy(enq_rdy) /\ Truthy(ev) THEN 1
      ELSE f

\* slip: deq_bits is connected to the input port instead of the register
NormalDpath_deq_bits_Input(q, eb) == eb

\* SingleElementNormalQueueDpath: deq_bits is the register output
NormalDpath_deq_bits(q, eb) == q

\* ------------------------------------------------------------------------
\* SingleElementBypassQueueCtrl
\* ------------------------------------------------------------------------

\* slip: the selector is tied to the register path
BypassCtrl_bypass_mux_sel_Register(f) == 0

BypassCtrl_bypass_mux_sel(f) == Invert(f)

\* slip: the write enable ignores enq_val and is asserted whenever empty
BypassCtrl_wen_NoValid(f, ev) == Invert(f)

\* slip: the inversion of the full bit is missing
BypassCtrl_wen_NoInvert(f, ev) == BitAnd(f, ev)

BypassCtrl_wen(f, ev) == BitAnd(Invert(f), ev)

\* slip: the queue reports ready whether or not it is full
BypassCtrl_enq_rdy_Always(f) == 1

BypassCtrl_enq_rdy(f) == Invert(f)

BypassCtrl_deq_val(f, ev) == BitOr(f, BitAnd(Invert(f), ev))

\* slip: the enqueue branch is tested before the dequeue branch and
\* without the do_bypass guard
BypassCtrl_seq_EnqFirst(f, ev, dr, rst) ==
  LET enq_rdy   == BypassCtrl_enq_rdy(f)
      deq_val   == BypassCtrl_deq_val(f, ev)
      do_deq    == Truthy(dr) /\ Truthy(deq_val)
      do_enq    == Truthy(enq_rdy) /\ Truthy(ev)
  IN  IF Truthy(rst) THEN 0
      ELSE IF do_enq THEN 1
      ELSE IF do_deq THEN 0
      ELSE f

\* slip: reset is tested after the two transactions instead of before
BypassCtrl_seq_ResetLast(f, ev, dr, rst) ==
  LET enq_rdy   == BypassCtrl_enq_rdy(f)
      deq_val   == BypassCtrl_deq_val(f, ev)
      do_deq    == Truthy(dr) /\ Truthy(deq_val)
      do_enq    == Truthy(enq_rdy) /\ Truthy(ev)
      do_bypass == Truthy(Invert(f)) /\ do_deq /\ do_enq
  IN  IF do_deq THEN 0
      ELSE IF do_enq /\ ~do_bypass THEN 1
      ELSE IF Truthy(rst) THEN 0
      ELSE f

BypassCtrl_seq(f, ev, dr, rst) ==
  LET enq_rdy   == BypassCtrl_enq_rdy(f)
      deq_val   == BypassCtrl_deq_val(f, ev)
      do_deq    == Truthy(dr) /\ Truthy(deq_val)
      do_enq    == Truthy(enq_rdy) /\ Truthy(ev)
      do_bypass == Truthy(Invert(f)) /\ do_deq /\ do_enq
  IN  IF Truthy(rst) THEN 0
      ELSE IF do_deq THEN 0
      ELSE IF do_enq /\ ~do_bypass THEN 1
      ELSE f

\* slip: the two data inputs of the bypass mux are connected the wrong
\* way round
BypassDpath_deq_bits_Swapped(q, eb, sel) == Mux2(eb, q, sel)

\* SingleElementBypassQueueDpath: bypass_mux.in_[0] = queue.out,
\* bypass_mux.in_[1] = enq_bits, bypass_mux.out = deq_bits
BypassDpath_deq_bits(q, eb, sel) == Mux2(q, eb, sel)

\* ------------------------------------------------------------------------
\* State
\* ------------------------------------------------------------------------

VARIABLES
  variant,   \* which class was constructed: "normal" or "bypass"
  full,      \* ctrl.full
  reg,       \* dpath.queue.out
  enq_val,   \* inputs driven in the current cycle
  enq_bits,
  deq_rdy,
  reset,
  last,      \* bookkeeping: the cycle that ended at the latest edge
  lastEnq,   \* bookkeeping: enq_bits of the latest committed enqueue
  resident,  \* bookkeeping: items accepted, not delivered, not reset away
  pending,   \* bookkeeping: committed enqueues minus committed dequeues
  enqLog,    \* bookkeeping: enq_bits of the committed enqueues, in order
  deqLog     \* bookkeeping: deq_bits of the committed dequeues, in order

vars == << variant, full, reg, enq_val, enq_bits, deq_rdy, reset,
           last, lastEnq, resident, pending, enqLog, deqLog >>

\* ------------------------------------------------------------------------
\* Ports of the queue in the current cycle (the facades' connections)
\* ------------------------------------------------------------------------

\* slip: the normal facade instantiates the bypass control and datapath
NormalQueue_ports_BypassUnits(f, q, ev, eb, dr) ==
  [ enq_rdy  |-> BypassCtrl_enq_rdy(f),
    deq_val  |-> BypassCtrl_deq_val(f, ev),
    deq_bits |-> BypassDpath_deq_bits(q, eb, BypassCtrl_bypass_mux_sel(f)) ]

\* SingleElementNormalQueue: the output ports, given the state (f, q) and
\* the input ports enq_val, enq_bits, deq_rdy
NormalQueue_ports(f, q, ev, eb, dr) ==
  [ enq_rdy  |-> NormalCtrl_enq_rdy(f),
    deq_val  |-> NormalCtrl_deq_val(f),
    deq_bits |-> NormalDpath_deq_bits(q, eb) ]

\* SingleElementBypassQueue: the output ports
BypassQueue_ports(f, q, ev, eb, dr) ==
  [ enq_rdy  |-> BypassCtrl_enq_rdy(f),
    deq_val  |-> BypassCtrl_deq_val(f, ev),
    deq_bits |-> BypassDpath_deq_bits(q, eb, BypassCtrl_bypass_mux_sel(f)) ]

ports ==
  IF variant = "normal"
    THEN NormalQueue_ports(full, reg, enq_val, enq_bits, deq_rdy)
    ELSE BypassQueue_ports(full, reg, enq_val, enq_bits, deq_rdy)

enq_rdy == ports.enq_rdy

deq_val == ports.deq_val

wen ==
  IF variant = "normal" THEN NormalCtrl_wen(full, enq_val)
                        ELSE BypassCtrl_wen(full, enq_val)

bypass_mux_sel == BypassCtrl_bypass_mux_sel(full)

deq_bits == ports.deq_bits

\* a transaction is valid && ready sampled at the edge
EnqCommit == Truthy(enq_rdy) /\ Truthy(enq_val)
DeqCommit == Truthy(deq_rdy) /\ Truthy(deq_val)

\* ------------------------------------------------------------------------
\* Bookkeeping
\* ------------------------------------------------------------------------

\* no enqueue has committed yet: a number outside Values
NoValue == 2^W

NoCycle ==
  [ valid |-> FALSE, full |-> 0, enq_val |-> 0, enq_bits |-> 0,
    deq_rdy |-> 0, reset |-> 0, enq |-> FALSE, deq |-> FALSE ]

\* the record of the current cycle; enq_bits is recorded only when it was
\* presented with enq_val
ThisCycle ==
  [ valid |-> TRUE, full |-> full, enq_val |-> enq_val,
    enq_bits |-> IF enq_val = 1 THEN enq_bits ELSE 0,
    deq_rdy |-> deq_rdy, reset |-> reset,
    enq |-> EnqCommit, deq |-> DeqCommit ]

Delta == (IF EnqCommit THEN 1 ELSE 0) - (IF DeqCommit THEN 1 ELSE 0)

Saturate(n) == IF n > MaxPending THEN MaxPending ELSE IF n < 0 THEN 0 ELSE n

Ledger ==
  /\ last'     = ThisCycle
  /\ lastEnq'  = IF EnqCommit THEN enq_bits ELSE lastEnq
  /\ resident' = IF Truthy(reset) THEN 0 ELSE resident + Delta
  /\ pending'  = Saturate(pending + Delta)

\* the logs are kept only by the logged edges below
Bookkeeping ==
  /\ Ledger
  /\ UNCHANGED << enqLog, deqLog >>

Logging ==
  /\ Ledger
  /\ enqLog' = IF EnqCommit THEN Append(enqLog, enq_bits) ELSE enqLog
  /\ deqLog' = IF DeqCommit THEN Append(deqLog, deq_bits) ELSE deqLog

\* ------------------------------------------------------------------------
\* Initial state and clock edges
\* ------------------------------------------------------------------------

Drive(RdySet) ==
  /\ enq_val'  \in Bit
  /\ enq_bits' \in Values
  /\ deq_rdy'  \in RdySet
  /\ reset'    \in Bit

InitWith(RdySet) ==
  /\ variant  \in {"normal", "bypass"}
  /\ full     = 0
  /\ reg      \in Values
  /\ enq_val  \in Bit
  /\ enq_bits \in Values
  /\ deq_rdy  \in RdySet
  /\ reset    \in Bit
  /\ last     = NoCycle
  /\ lastEnq  = NoValue
  /\ resident = 0
  /\ pending  = 0
  /\ enqLog   = << >>
  /\ deqLog   = << >>

NormalQueueEdge(RdySet) ==
  /\ variant = "normal"
  /\ full' = NormalCtrl_seq(full, enq_val, deq_rdy, reset)
  /\ reg'  = RegEn(reg, NormalCtrl_wen(full, enq_val), enq_bits)
  /\ Bookkeeping
  /\ Drive(RdySet)
  /\ UNCHANGED variant

BypassQueueEdge(RdySet) ==
  /\ variant = "bypass"
  /\ full' = BypassCtrl_seq(full, enq_val, deq_rdy, reset)
  /\ reg'  = RegEn(reg, BypassCtrl_wen(full, enq_val), enq_bits)
  /\ Bookkeeping
  /\ Drive(RdySet)
  /\ UNCHANGED variant

\* slip: seq assigns full.value instead of full.next, so a block evaluated
\* later at the same edge reads the freshly updated full bit
FullReadAfterCtrlSeq_Immediate(f, fnext) == fnext

\* seq assigns full.next: a block evaluated after the control's seq at the
\* same edge still reads the pre-edge full.value
FullReadAfterCtrlSeq(f, fnext) == f

\* the same edges with the control's seq evaluated before the register's
\* (NormalQueueEdge and BypassQueueEdge read nothing the other block
\* writes, which is the order `register first')
NormalQueueEdgeCtrlFirst ==
  /\ variant = "normal"
  /\ LET fnext == NormalCtrl_seq(full, enq_val, deq_rdy, reset)
         fread == FullReadAfterCtrlSeq(full, fnext)
     IN  /\ full' = fnext
         /\ reg'  = RegEn(reg, NormalCtrl_wen(fread, enq_val), enq_bits)
  /\ Bookkeeping
  /\ Drive(Bit)
  /\ UNCHANGED variant

BypassQueueEdgeCtrlFirst ==
  /\ variant = "bypass"
  /\ LET fnext == BypassCtrl_seq(full, enq_val, deq_rdy, reset)
         fread == FullReadAfterCtrlSeq(full, fnext)
     IN  /\ full' = fnext
         /\ reg'  = RegEn(reg, BypassCtrl_wen(fread, enq_val), enq_bits)
  /\ Bookkeeping
  /\ Drive(Bit)
  /\ UNCHANGED variant

\* the inputs of the next cycle when reset is never asserted again
DriveNoReset ==
  /\ enq_val'  \in Bit
  /\ enq_bits' \in Values
  /\ deq_rdy'  \in Bit
  /\ reset'    = 0

\* the edges with reset deasserted in every cycle
NormalQueueEdgeNoReset ==
  /\ variant = "normal"
  /\ full' = NormalCtrl_seq(full, enq_val, deq_rdy, reset)
  /\ reg'  = RegEn(reg, NormalCtrl_wen(full, enq_val), enq_bits)
  /\ Bookkeeping
  /\ DriveNoReset
  /\ UNCHANGED variant

BypassQueueEdgeNoReset ==
  /\ variant = "bypass"
  /\ full' = BypassCtrl_seq(full, enq_val, deq_rdy, reset)
  /\ reg'  = RegEn(reg, BypassCtrl_wen(full, enq_val), enq_bits)
  /\ Bookkeeping
  /\ DriveNoReset
  /\ UNCHANGED variant

\* the same, every committed transaction being logged, until MaxLog
\* enqueues have committed
NormalQueueEdgeLogged ==
  /\ variant = "normal"
  /\ Len(enqLog) < MaxLog
  /\ full' = NormalCtrl_seq(full, enq_val, deq_rdy, reset)
  /\ reg'  = RegEn(reg, NormalCtrl_wen(full, enq_val), enq_bits)
  /\ Logging
  /\ DriveNoReset
  /\ UNCHANGED variant

BypassQueueEdgeLogged ==
  /\ variant = "bypass"
  /\ Len(enqLog) < MaxLog
  /\ full' = BypassCtrl_seq(full, enq_val, deq_rdy, reset)
  /\ reg'  = RegEn(reg, BypassCtrl_wen(full, enq_val), enq_bits)
  /\ Logging
  /\ DriveNoReset
  /\ UNCHANGED variant

Init == InitWith(Bit)

Next == NormalQueueEdge(Bit) \/ BypassQueueEdge(Bit)

Spec == Init /\ [][Next]_vars

\* the consumer holds deq_rdy low in every cycle
InitBackpressure == InitWith({0})

NextBackpressure == NormalQueueEdge({0}) \/ BypassQueueEdge({0})

SpecBackpressure == InitBackpressure /\ [][NextBackpressure]_vars

\* the sequential blocks evaluated in either order
NextOrder ==
  \/ NormalQueueEdge(Bit)
  \/ BypassQueueEdge(Bit)
  \/ NormalQueueEdgeCtrlFirst
  \/ BypassQueueEdgeCtrlFirst

SpecOrder == Init /\ [][NextOrder]_vars

\* reset is not asserted after the initial reset
InitNoReset == InitWith(Bit) /\ reset = 0

NextLogged == NormalQueueEdgeLogged \/ BypassQueueEdgeLogged

SpecLogged == InitNoReset /\ [][NextLogged]_vars

\* the clock keeps ticking
NextNoReset == NormalQueueEdgeNoReset \/ BypassQueueEdgeNoReset

SpecLive == InitNoReset /\ [][NextNoReset]_vars /\ WF_vars(NextNoReset)

TypeOK ==
  /\ variant \in {"normal", "bypass"}
  /\ full \in Bit
  /\ reg \in Values
  /\ enq_val \in Bit /\ enq_bits \in Values /\ deq_rdy \in Bit /\ reset \in Bit
  /\ lastEnq \in Values \cup {NoValue}
  /\ pending \in 0 .. MaxPending

\* ------------------------------------------------------------------------
\* Capacity
\* ------------------------------------------------------------------------

\* C1, as stated: the number of committed enqueues not yet delivered by a
\* committed dequeue is 0 or 1 and equals the full bit, in every reachable
\* state.
C1_Original == pending \in {0, 1} /\ pending = full

\* C1, amended: the number of items accepted by a committed enqueue and
\* neither delivered by a committed dequeue nor discarded by an edge with
\* reset asserted is 0 or 1 and equals the full bit, in every reachable
\* state of both variants.
C1_Capacity == resident \in {0, 1} /\ resident = full

\* an item is resident after an earlier one was discarded by reset
C1_Witness ==
  /\ last.valid /\ last.enq /\ last.reset = 0
  /\ full = 1 /\ resident = 1 /\ pending = 2

\* ------------------------------------------------------------------------
\* Normal queue handshake
\* ------------------------------------------------------------------------

\* C2, as stated: in the normal queue an enqueue commits at an edge if and
\* only if full = 0 before the edge, and full = 1 after every edge at which
\* an enqueue commits.
C2_Original ==
  [][ variant = "normal" =>
        /\ EnqCommit <=> (full = 0)
        /\ EnqCommit => full' = 1 ]_vars

\* C2, amended: in the normal queue an enqueue commits at an edge if and
\* only if full = 0 before the edge and enq_val is asserted, and full = 1
\* after every edge at which an enqueue commits with reset deasserted.
C2_Admission ==
  [][ variant = "normal" =>
        /\ EnqCommit <=> (full = 0 /\ enq_val = 1)
        /\ (EnqCommit /\ reset = 0) => full' = 1 ]_vars

\* the normal queue has just accepted an item
C2_Witness ==
  /\ variant = "normal" /\ last.valid
  /\ last.full = 0 /\ last.enq /\ last.reset = 0
  /\ full = 1

\* C3, as stated: in the normal queue a dequeue commits at an edge if and
\* only if full = 1 before the edge, and full = 0 after every edge at which
\* a dequeue commits.
C3_Original ==
  [][ variant = "normal" =>
        /\ DeqCommit <=> (full = 1)
        /\ DeqCommit => full' = 0 ]_vars

\* C3, amended: in the normal queue a dequeue commits at an edge if and
\* only if full = 1 before the edge and deq_rdy is asserted, and full = 0
\* after every edge at which a dequeue commits.
C3_Drain ==
  [][ variant = "normal" =>
        /\ DeqCommit <=> (full = 1 /\ deq_rdy = 1)
        /\ DeqCommit => full' = 0 ]_vars

\* the normal queue has just delivered its item
C3_Witness ==
  /\ variant = "normal" /\ last.valid
  /\ last.full = 1 /\ last.deq /\ last.reset = 0
  /\ full = 0

\* C4: in the normal queue an enqueue commit and a dequeue commit are never
\* both true in the same cycle, and enq_rdy is the complement of deq_val in
\* every state.
C4_MutualExclusion ==
  variant = "normal" =>
    /\ ~(EnqCommit /\ DeqCommit)
    /\ enq_rdy = Invert(deq_val)

\* both sides ask for a transaction in the same cycle and only the dequeue
\* commits
C4_Witness ==
  /\ variant = "normal" /\ last.valid
  /\ enq_val = 1 /\ deq_rdy = 1
  /\ full = 1 /\ DeqCommit /\ ~EnqCommit

\* ------------------------------------------------------------------------
\* Bypass queue
\* ------------------------------------------------------------------------

\* C5: in the bypass queue, in every cycle with full = 0, enq_val and
\* deq_rdy asserted, deq_val is asserted and deq_bits equals enq_bits in
\* that cycle, and full is still 0 after the edge.
C5_BypassPassThrough ==
  [][ (variant = "bypass" /\ full = 0 /\ enq_val = 1 /\ deq_rdy = 1) =>
        /\ deq_val = 1
        /\ deq_bits = enq_bits
        /\ full' = 0 ]_vars

\* a value has just passed straight through an empty bypass queue
C5_Witness ==
  /\ variant = "bypass" /\ last.valid
  /\ last.full = 0 /\ last.enq /\ last.deq /\ last.reset = 0
  /\ full = 0 /\ resident = 0

\* C6, as stated: in the bypass queue, in every cycle with full = 0,
\* enq_val asserted and deq_rdy deasserted, full = 1 after the edge and the
\* register after the edge equals the enq_bits of that cycle.
C6_Original ==
  [][ (variant = "bypass" /\ full = 0 /\ enq_val = 1 /\ deq_rdy = 0) =>
        /\ full' = 1
        /\ reg' = enq_bits ]_vars

\* C6, amended: in the bypass queue, in every cycle with full = 0, enq_val
\* asserted and deq_rdy deasserted, the register after the edge equals the
\* enq_bits of that cycle, and full = 1 after the edge if reset is
\* deasserted in that cycle.
C6_BypassRetention ==
  [][ (variant = "bypass" /\ full = 0 /\ enq_val = 1 /\ deq_rdy = 0) =>
        /\ reset = 0 => full' = 1
        /\ reg' = enq_bits ]_vars

\* the bypass queue has just retained a value nobody was ready to take
C6_Witness ==
  /\ variant = "bypass" /\ last.valid
  /\ last.full = 0 /\ last.enq_val = 1 /\ last.deq_rdy = 0 /\ last.reset = 0
  /\ full = 1 /\ reg = last.enq_bits /\ reg # 0

\* ------------------------------------------------------------------------
\* Reset
\* ------------------------------------------------------------------------

\* C7: in both variants, from full = 0 or 1 and for any enq_val, enq_bits
\* and deq_rdy, an edge at which reset is asserted leaves full = 0, also
\* when an enqueue or a dequeue commits at that edge.
C7_Reset == [][ reset = 1 => full' = 0 ]_vars

\* reset has just overridden an enqueue that committed at the same edge
C7_Witness ==
  /\ last.valid /\ last.reset = 1
  /\ last.full = 0 /\ last.enq /\ ~last.deq
  /\ full = 0

\* ------------------------------------------------------------------------
\* Store, then drain
\* ------------------------------------------------------------------------

\* the cycle before was `enq_val = 1, enq_bits = v, deq_rdy = 0' on an empty
\* queue and this cycle is `enq_val = 0, deq_rdy = 1', reset low in both
StoreThenDrain ==
  /\ last.valid
  /\ last.full = 0 /\ last.reset = 0 /\ last.enq_val = 1 /\ last.deq_rdy = 0
  /\ enq_val = 0 /\ deq_rdy = 1 /\ reset = 0

\* C8: in both variants, starting empty with reset deasserted, a cycle with
\* enq_val = 1, enq_bits = v, deq_rdy = 0 shows enq_rdy = 1 and leaves
\* full = 1; a following cycle with enq_val = 0, deq_rdy = 1 shows
\* deq_val = 1 and deq_bits = v (with bypass_mux_sel = 0 in the bypass
\* variant) and leaves full = 0.
C8_RoundTrip ==
  [][ StoreThenDrain =>
        /\ last.enq
        /\ full = 1
        /\ deq_val = 1
        /\ deq_bits = last.enq_bits
        /\ variant = "bypass" => bypass_mux_sel = 0
        /\ full' = 0 ]_vars

\* the second cycle of the round trip, the stored value being offered while
\* the input port carries another one
C8_Witness ==
  /\ StoreThenDrain
  /\ variant = "bypass"
  /\ last.enq_bits = 2^W - 1 /\ enq_bits = 0
  /\ DeqCommit /\ deq_bits = 2^W - 1

\* ------------------------------------------------------------------------
\* Backpressure (checked under SpecBackpressure)
\* ------------------------------------------------------------------------

\* C9, as stated: when the consumer holds deq_rdy low in every cycle, no
\* cycle has an enqueue commit and no cycle has a dequeue commit.
C9_Original == ~EnqCommit /\ ~DeqCommit

\* C9, amended: when the consumer holds deq_rdy low in every cycle, no
\* cycle has a dequeue commit; an enqueue commits exactly in the cycles
\* with full = 0 and enq_val asserted, and once the queue is full it stays
\* full, committing nothing, for as long as reset is deasserted.
C9_Backpressure ==
  [][ /\ ~DeqCommit
      /\ EnqCommit <=> (full = 0 /\ enq_val = 1)
      /\ (EnqCommit /\ reset = 0) => full' = 1
      /\ (full = 1 /\ reset = 0) => full' = 1 ]_vars

\* the one item was accepted and the producer is now stalled
C9_Witness ==
  /\ last.valid /\ last.enq /\ last.reset = 0
  /\ full = 1 /\ enq_val = 1 /\ deq_rdy = 0 /\ reset = 0
  /\ ~EnqCommit /\ ~DeqCommit

\* ------------------------------------------------------------------------
\* Stored value
\* ------------------------------------------------------------------------

\* C10: in both variants, in every reachable state with full = 1 the
\* register, and with it deq_bits, equals the enq_bits of the most recent
\* committed enqueue, and no edge across which full stays 1 changes the
\* register.
C10_StoredValue ==
  /\ [](full = 1 => (reg = lastEnq /\ deq_bits = lastEnq))
  /\ [][ (full = 1 /\ full' = 1) => reg' = reg ]_vars

\* the producer offered another value while the queue was full and the
\* register kept the accepted one
C10_Witness ==
  /\ last.valid /\ last.full = 1 /\ last.enq_val = 1
  /\ full = 1 /\ last.enq_bits # reg
  /\ reg = lastEnq /\ deq_bits = reg

\* ------------------------------------------------------------------------
\* Storage register
\* ------------------------------------------------------------------------

\* C11: in both variants wen is asserted exactly when full = 0 and enq_val
\* is asserted; across every edge at which it is deasserted the register is
\* unchanged, whatever enq_bits, deq_rdy and reset are, and at an edge at
\* which it is asserted the register takes the enq_bits of that cycle.
C11_RegisterFrame ==
  [][ LET w == (full = 0 /\ enq_val = 1)
      IN  /\ (wen = 1) <=> w
          /\ ~w => reg' = reg
          /\ w => reg' = enq_bits
          /\ reg' # reg => w ]_vars

\* a full queue was offered another value at an edge with a dequeue and a
\* reset, and the register still holds the value accepted earlier
C11_Witness ==
  /\ last.valid /\ last.full = 1
  /\ last.enq_val = 1 /\ last.deq_rdy = 1 /\ last.reset = 1
  /\ last.enq_bits # reg /\ reg = lastEnq
  /\ full = 0

\* C12, as stated: in the bypass queue, at every edge where an enqueue and
\* a dequeue both commit while full = 0, the register is unchanged across
\* the edge.
C12_Original ==
  [][ (variant = "bypass" /\ full = 0 /\ EnqCommit /\ DeqCommit) =>
        reg' = reg ]_vars

\* C12, amended: in the bypass queue, at every edge where an enqueue and a
\* dequeue both commit while full = 0, the value is also written to the
\* register (wen = 1, the register after the edge equals the enq_bits of
\* that cycle); only the full bit stays 0.
C12_BypassedValueStored ==
  [][ (variant = "bypass" /\ full = 0 /\ EnqCommit /\ DeqCommit) =>
        /\ wen = 1
        /\ reg' = enq_bits
        /\ full' = 0 ]_vars

\* a value has just passed through the bypass path and sits in the
\* register of the still empty queue
C12_Witness ==
  /\ variant = "bypass" /\ last.valid
  /\ last.full = 0 /\ last.enq /\ last.deq
  /\ full = 0 /\ reg = last.enq_bits /\ reg = 2^W - 1

\* C13: in the bypass queue an enqueue commit and a dequeue commit are both
\* true in the same cycle only when full = 0; when full = 1 a dequeue
\* commits as soon as deq_rdy is asserted and no enqueue commits, enq_rdy
\* being the complement of full whatever deq_rdy is.
C13_BypassSimultaneity ==
  variant = "bypass" =>
    /\ (EnqCommit /\ DeqCommit) => full = 0
    /\ full = 1 => ~EnqCommit
    /\ (full = 1 /\ deq_rdy = 1) => DeqCommit
    /\ enq_rdy = Invert(full)

\* a full bypass queue with both sides asking: only the dequeue commits
C13_Witness ==
  /\ variant = "bypass" /\ last.valid
  /\ full = 1 /\ enq_val = 1 /\ deq_rdy = 1
  /\ DeqCommit /\ ~EnqCommit

\* ------------------------------------------------------------------------
\* Enqueue at a reset edge
\* ------------------------------------------------------------------------

\* C17: in both variants, in a cycle with reset asserted, full = 0 and
\* enq_val asserted (and deq_rdy deasserted in the bypass variant), enq_rdy
\* and wen are asserted as without reset, the enqueue commits and the
\* register captures enq_bits, yet full = 0 after the edge; the full bit is
\* only ever set by an enqueue committing with reset deasserted, so the
\* register is never offered while it holds a value captured at a reset
\* edge.
C17_EnqueueDroppedByReset ==
  [][ /\ ( /\ reset = 1 /\ full = 0 /\ enq_val = 1
           /\ variant = "bypass" => deq_rdy = 0 ) =>
           /\ enq_rdy = 1 /\ wen = 1 /\ EnqCommit
           /\ deq_val = (IF variant = "normal" THEN 0 ELSE 1)
           /\ reg' = enq_bits
           /\ full' = 0
      /\ (full = 0 /\ full' = 1) =>
           (EnqCommit /\ reset = 0 /\ reg' = enq_bits)
      /\ (full = 1 /\ full' = 1) => (reset = 0 /\ reg' = reg) ]_vars

\* the register holds a value captured at a reset edge and the normal
\* queue, still empty, offers nothing
C17_Witness ==
  /\ variant = "normal" /\ last.valid
  /\ last.reset = 1 /\ last.full = 0 /\ last.enq
  /\ full = 0 /\ reg = last.enq_bits /\ reg = 2^W - 1
  /\ deq_val = 0

\* ------------------------------------------------------------------------
\* Normal queue throughput
\* ------------------------------------------------------------------------

\* C19, as stated: in the normal queue enqueues never commit in two
\* consecutive cycles and dequeues never commit in two consecutive cycles.
C19_Original ==
  variant = "normal" =>
    /\ ~(last.enq /\ EnqCommit)
    /\ ~(last.deq /\ DeqCommit)

\* C19, amended: in the normal queue enqueues commit in two consecutive
\* cycles only if reset is asserted in the first of them, dequeues never
\* commit in two consecutive cycles, and whenever an enqueue commits every
\* earlier item has been delivered by a committed dequeue or discarded by
\* an edge with reset asserted (possibly the edge of its own enqueue).
C19_Throughput ==
  variant = "normal" =>
    /\ (last.enq /\ EnqCommit) => last.reset = 1
    /\ ~(last.deq /\ DeqCommit)
    /\ EnqCommit => resident = 0

\* two enqueues commit back to back, the first one at a reset edge
C19_Witness ==
  /\ variant = "normal" /\ last.valid
  /\ last.enq /\ last.reset = 1
  /\ EnqCommit /\ pending >= 1

\* ------------------------------------------------------------------------
\* The do_bypass guard
\* ------------------------------------------------------------------------

\* the state update of the bypass control with the third branch guarded by
\* do_enq alone
C20_UnguardedRule(f, ev, dr, rst) ==
  LET do_deq == Truthy(dr) /\ Truthy(BypassCtrl_deq_val(f, ev))
      do_enq == Truthy(BypassCtrl_enq_rdy(f)) /\ Truthy(ev)
  IN  IF Truthy(rst) THEN 0
      ELSE IF do_deq THEN 0
      ELSE IF do_enq THEN 1
      ELSE f

\* C20: for every full, enq_val, deq_rdy and reset the next full computed
\* by the bypass control equals the one computed by the same rule with the
\* third branch guarded by do_enq alone, and whenever an enqueue and a
\* dequeue both commit while empty (do_bypass) the dequeue branch decides.
C20_GuardRedundant ==
  [][ variant = "bypass" =>
        /\ full' = C20_UnguardedRule(full, enq_val, deq_rdy, reset)
        /\ (full = 0 /\ EnqCommit /\ DeqCommit) => full' = 0 ]_vars

\* do_bypass was true at the latest edge, with reset deasserted, and is
\* true again
C20_Witness ==
  /\ variant = "bypass" /\ last.valid
  /\ last.full = 0 /\ last.enq /\ last.deq /\ last.reset = 0
  /\ full = 0 /\ EnqCommit /\ DeqCommit /\ reset = 0

\* ------------------------------------------------------------------------
\* Normal queue: outputs and inputs of the same cycle
\* ------------------------------------------------------------------------

\* C18: in every reachable state of the normal queue the outputs enq_rdy,
\* deq_val and deq_bits are the same for every other choice of the inputs
\* enq_val, enq_bits and deq_rdy of that cycle; a committed dequeue
\* therefore delivers the value of an enqueue committed in an earlier
\* cycle, never one committing in the same cycle.
C18_OutputsFromStateOnly ==
  variant = "normal" =>
    /\ \A ev \in Bit, eb \in Values, dr \in Bit :
         NormalQueue_ports(full, reg, ev, eb, dr) = ports
    /\ DeqCommit => (~EnqCommit /\ lastEnq # NoValue /\ deq_bits = lastEnq)

\* a dequeue commits while the producer presents another value
C18_Witness ==
  /\ variant = "normal" /\ last.valid
  /\ full = 1 /\ DeqCommit
  /\ enq_val = 1 /\ enq_bits # deq_bits

\* ------------------------------------------------------------------------
\* Order of the sequential blocks (checked under SpecOrder)
\* ------------------------------------------------------------------------

\* C14: in both variants, whichever of the control update and the register
\* update is evaluated first at an edge, the full bit after the edge is the
\* state update applied to the pre-edge full and inputs, and the register
\* after the edge is enq_bits if the pre-edge full is 0 and enq_val is
\* asserted, and the pre-edge register otherwise.
C14_AtomicCommit ==
  [][ /\ full' = (IF variant = "normal"
                    THEN NormalCtrl_seq(full, enq_val, deq_rdy, reset)
                    ELSE BypassCtrl_seq(full, enq_val, deq_rdy, reset))
      /\ reg'  = (IF full = 0 /\ enq_val = 1 THEN enq_bits ELSE reg) ]_vars

\* the full bit was set and the register written at the same edge
C14_Witness ==
  /\ last.valid
  /\ last.full = 0 /\ last.enq /\ last.reset = 0 /\ last.deq_rdy = 0
  /\ full = 1 /\ reg = last.enq_bits /\ reg = 2^W - 1

\* ------------------------------------------------------------------------
\* Delivery (checked under SpecLogged and SpecLive, reset never asserted)
\* ------------------------------------------------------------------------

IsPrefix(s, t) ==
  /\ Len(s) <= Len(t)
  /\ \A i \in 1 .. Len(s) : s[i] = t[i]

\* C15: in both variants, when reset is not asserted after the initial
\* reset, the sequence of deq_bits of the committed dequeues is at every
\* moment a prefix of the sequence of enq_bits of the committed enqueues,
\* and the two differ in length by exactly the full bit.
C15_NoLossNoReorder ==
  /\ IsPrefix(deqLog, enqLog)
  /\ Len(enqLog) - Len(deqLog) = full

\* one value delivered, a different one resident
C15_Witness ==
  /\ Len(enqLog) = 2 /\ Len(deqLog) = 1
  /\ enqLog[1] # enqLog[2]
  /\ full = 1 /\ reg = enqLog[2]

\* C16: in both variants, when reset is not asserted and the consumer
\* asserts deq_rdy infinitely often, every state with full = 1 is
\* eventually followed by a committed dequeue that leaves full = 0 and
\* enq_rdy asserted.
C16_EventualDrain ==
  ([]<>(deq_rdy = 1)) =>
    ((full = 1) ~> (last.valid /\ last.deq /\ full = 0 /\ enq_rdy = 1))

\* the queue has been full for at least two cycles, the consumer not ready
C16_Witness ==
  /\ last.valid /\ last.full = 1 /\ last.deq_rdy = 0
  /\ full = 1 /\ deq_rdy = 0

====
